---- MODULE Spec2Model ----
(***************************************************************************)
(* Model of toqito's subsystem swap (perms/swap.py) and of the positive    *)
(* semidefiniteness test (matrix/properties/is_psd.py).                    *)
(*                                                                         *)
(* Both are pure functions.  The state machine draws an argument tuple in  *)
(* Init and applies the function in one action per call; a second action   *)
(* feeds the result of swap back into swap with the same arguments.        *)
(***************************************************************************)
EXTENDS Integers, Sequences, FiniteSets, TLC

VARIABLES pc, rho, args, res, res2, mat, tol, psd

vars == <<pc, rho, args, res, res2, mat, tol, psd>>

(***************************************************************************)
(* Bounds of the model.                                                    *)
(***************************************************************************)
MaxLen == 8
MaxRows == 6
MaxCols == 4
MaxDim == 3
MaxSys == 3
MaxTabLen == 3
MaxSysLen == 3
MaxSysVal == 2
MaxMatCols == 2
MaxEntry == 1
MaxTol == 1

(***************************************************************************)
(* np.finfo(float).eps = 2^-EpsBits.                                       *)
(***************************************************************************)
EpsBits == 52

(***************************************************************************)
(* Arithmetic helpers.                                                     *)
(***************************************************************************)
RECURSIVE Prod(_)
Prod(s) == IF s = <<>> THEN 1 ELSE Head(s) * Prod(Tail(s))

Reverse(s) == [k \in 1..Len(s) |-> s[Len(s) + 1 - k]]

Abs(x) == IF x < 0 THEN -x ELSE x

SeqsUpTo(S, lo, hi) == UNION {[1..n -> S] : n \in lo..hi}

\* x / 2^k rounded up, for x >= 0
RECURSIVE CeilShift(_, _)
CeilShift(x, k) == IF k = 0 THEN x ELSE CeilShift((x + 1) \div 2, k - 1)

\* np.round(a / d) for integers a >= 0, d >= 1: nearest integer, ties to even
RoundDiv(a, d) ==
    LET q == a \div d
        r == a % d
    IN  IF 2 * r < d THEN q
        ELSE IF 2 * r > d THEN q + 1
        ELSE IF q % 2 = 0 THEN q ELSE q + 1

\* np.round(np.sqrt(n)) for an integer n >= 1: sqrt(n) is never a half-integer
RoundSqrt(n) == CHOOSE k \in 0..n : k * k - k + 1 <= n /\ n <= k * k + k

(***************************************************************************)
(* Values.  An operand is a 1-D or 2-D array; its entries are indexed by   *)
(* <<row, column>> in the rho_dims view of the array (a 1-D array of       *)
(* length n is viewed as 1 row of n columns).                              *)
(***************************************************************************)
Positions(r, c) == (1..r) \X (1..c)

\* entry (i, j) carries the label of its own position, so that a result
\* shows where each of its entries came from
Labelled(r, c) == [p \in Positions(r, c) |-> (p[1] - 1) * c + p[2]]

Vector(n) == [rank |-> 1, shape |-> <<n>>, ent |-> Labelled(1, n)]

Matrix(r, c) == [rank |-> 2, shape |-> <<r, c>>, ent |-> Labelled(r, c)]

NoOperand == [rank |-> 0, shape |-> <<>>, ent |-> [p \in {} |-> 0]]

Operands ==
    {Vector(n) : n \in 1..MaxLen}
    \cup {Matrix(r, c) : r \in 1..MaxRows, c \in 1..MaxCols}

\* the dim argument: omitted, a single integer, a list, or a 2-row table
DimNone == [tag |-> "none", d |-> 0, r |-> <<>>, c |-> <<>>]
DimInt(d) == [tag |-> "int", d |-> d, r |-> <<>>, c |-> <<>>]
DimList(l) == [tag |-> "list", d |-> 0, r |-> l, c |-> l]
DimTable(r, c) == [tag |-> "table", d |-> 0, r |-> r, c |-> c]

\* The dim arguments tried on an operand of xd[1] rows and xd[2] columns:
\* omitted, every integer, every list that accounts for the rows or for the
\* columns (so a list may still be wrong about the other axis), and every
\* table that accounts for both.
DimArgs(xd) ==
    {DimNone}
    \cup {DimInt(d) : d \in 1..MaxDim}
    \cup {DimList(l) : l \in {m \in SeqsUpTo(1..MaxDim, 0, MaxSys) :
                                  Prod(m) = xd[1] \/ Prod(m) = xd[2]}}
    \cup UNION {{DimTable(r, c) : r \in {m \in [1..n -> 1..MaxDim] : Prod(m) = xd[1]},
                                  c \in {m \in [1..n -> 1..MaxDim] : Prod(m) = xd[2]}} :
                n \in 1..MaxTabLen}

\* the sys argument: omitted or a list of integers
SysNone == [none |-> TRUE, v |-> <<>>]
SysList(l) == [none |-> FALSE, v |-> l]

SysArgs == {SysNone} \cup {SysList(l) : l \in SeqsUpTo(0..MaxSysVal, 0, MaxSysLen)}

NoArgs == [sys |-> SysNone, dim |-> DimNone, row_only |-> FALSE]

(***************************************************************************)
(* permute_systems(rho, perm, dim, row_only): the permutation engine.      *)
(***************************************************************************)
\* weight of digit k in the mixed-radix number system dims (digit 1 is the
\* most significant)
Weight(dims, k) == Prod(SubSeq(dims, k + 1, Len(dims)))

Digit(idx, dims, k) == (idx \div Weight(dims, k)) % dims[k]

RECURSIVE SumTo(_, _)
SumTo(f, n) == IF n = 0 THEN 0 ELSE f[n] + SumTo(f, n - 1)

\* the lookup table: for each (1-based) output index the input index whose
\* entry it receives; output slot k is supplied by input subsystem perm[k]
LookupTable(dims, perm) ==
    LET n == Len(dims)
        outdims == [k \in 1..n |-> dims[perm[k]]]
        slot(m) == CHOOSE k \in 1..n : perm[k] = m
        InIndex(o) ==
            SumTo([m \in 1..n |-> Digit(o, outdims, slot(m)) * Weight(dims, m)], n)
    IN  [o \in 1..Prod(dims) |-> 1 + InIndex(o - 1)]

IsPermutation(perm, n) ==
    /\ Len(perm) = n
    /\ \A m \in 1..n : \E k \in 1..n : perm[k] = m

\* rows and columns of the operand as the engine sees them: a 1-D array is
\* one row
OperandDims(x) == IF Len(x.shape) = 1 THEN <<1, x.shape[1]>> ELSE x.shape

\* a 1-D dim applies to both axes of a matrix and to the one axis of a vector
RowDims(x, dim) ==
    IF dim.tag = "list" /\ x.rank = 1 THEN [k \in 1..Len(dim.r) |-> 1] ELSE dim.r

PermuteSystems(x, perm, dim, row_only) ==
    LET n == Len(dim.r)
        rowd == RowDims(x, dim)
        cold == dim.c
        xd == OperandDims(x)
        permuteCols == (~row_only) \/ x.rank = 1
    IN  IF ~IsPermutation(perm, n)
        THEN [err |-> "InvalidPerm", val |-> NoOperand]
        ELSE IF Prod(rowd) # xd[1] \/ Prod(cold) # xd[2]
        THEN [err |-> "InvalidDim", val |-> NoOperand]
        ELSE LET rowtab == LookupTable(rowd, perm)
                 coltab == IF permuteCols THEN LookupTable(cold, perm)
                           ELSE [j \in 1..xd[2] |-> j]
             IN  [err |-> "none",
                  val |-> [rank |-> x.rank, shape |-> x.shape,
                           ent |-> [p \in Positions(xd[1], xd[2]) |->
                                       x.ent[<<rowtab[p[1]], coltab[p[2]]>>]]]]

(***************************************************************************)
(* swap(rho, sys, dim, row_only)                                           *)
(***************************************************************************)
rho_dims(x) == IF Len(x.shape) = 1 THEN <<1, x.shape[1]>> ELSE x.shape

round_dim(x) == <<RoundSqrt(rho_dims(x)[1]), RoundSqrt(rho_dims(x)[2])>>

\* sys after the default of line 42
SysOrDefault(sys) == IF sys.none THEN <<1, 2>> ELSE sys.v

\* variant: the second subsystem takes whatever is left of the axis
DimOrDefault_Lenient(x, dim) ==
    IF dim.tag = "none"
    THEN DimTable(<<round_dim(x)[1], rho_dims(x)[1] \div round_dim(x)[1]>>,
                  <<round_dim(x)[2], rho_dims(x)[2] \div round_dim(x)[2]>>)
    ELSE dim

\* dim after the default of lines 46-48
DimOrDefault(x, dim) ==
    IF dim.tag = "none"
    THEN DimTable(<<round_dim(x)[1], round_dim(x)[1]>>,
                  <<round_dim(x)[2], round_dim(x)[2]>>)
    ELSE dim

\* |a/d - round(a/d)| in units of 1/d
FracDist(a, d) == Abs(a - d * RoundDiv(a, d))

\* variant: only the row quotient is tested
IntDimInvalid_RowsOnly(x, d) ==
    FracDist(rho_dims(x)[1], d)
        >= CeilShift(rho_dims(x)[1] * rho_dims(x)[2] * d, EpsBits - 1)

\* variant: only the column quotient is tested
IntDimInvalid_ColsOnly(x, d) ==
    FracDist(rho_dims(x)[2], d)
        >= CeilShift(rho_dims(x)[1] * rho_dims(x)[2] * d, EpsBits - 1)

\* the test of lines 53-54, both sides multiplied by d / (2 eps):
\*   |r/d - round(r/d)| + |c/d - round(c/d)| >= 2 * prod(rho_dims) * eps
IntDimInvalid(x, d) ==
    FracDist(rho_dims(x)[1], d) + FracDist(rho_dims(x)[2], d)
        >= CeilShift(rho_dims(x)[1] * rho_dims(x)[2] * d, EpsBits - 1)

\* the table of lines 51-52 after the rounding of lines 62-63
IntDimTable(x, d) ==
    DimTable(<<d, RoundDiv(rho_dims(x)[1], d)>>, <<d, RoundDiv(rho_dims(x)[2], d)>>)

\* len(dim) of line 66: the length of a 1-D array, the number of rows of a table
num_sys(dim) ==
    IF dim.tag = "int" THEN 2
    ELSE IF dim.tag = "list" THEN Len(dim.r)
    ELSE 2

\* any(sys) as the integer Python compares it as
AnySys(sys) == IF \E k \in 1..Len(sys) : sys[k] # 0 THEN 1 ELSE 0

\* line 69
InvalidSysRange(sys, n) == AnySys(sys) < 1 \/ AnySys(sys) > n

\* variant: only too short a selector is rejected
InvalidSysLen_Short(sys) == Len(sys) < 2

\* line 75
InvalidSysLen(sys) == Len(sys) # 2

\* variant: the list is rotated instead of reversed
perm_Rotated(n) == [k \in 1..n |-> IF k = n THEN 1 ELSE k + 1]

\* lines 82-83
perm(n) == Reverse([k \in 1..n |-> k])

\* variant: the operand is handed on in its 2-D rho_dims view
RhoArg_Reshaped(x) == [rank |-> 2, shape |-> rho_dims(x), ent |-> x.ent]

\* the operand handed on at line 84
RhoArg(x) == x

\* variant: the flag is dropped
RowOnlyArg_Dropped(row_only) == FALSE

\* the row_only argument handed on at line 84
RowOnlyArg(row_only) == row_only

Failure(kind, dim, n) ==
    [err |-> kind, by |-> "swap", called |-> FALSE, dim |-> dim, num_sys |-> n,
     perm |-> <<>>, val |-> NoOperand]

swap(x, sys0, dim0, row_only) ==
    LET sys == SysOrDefault(sys0)
        dim1 == DimOrDefault(x, dim0)
    IN  IF dim1.tag = "int" /\ IntDimInvalid(x, dim1.d)
        THEN Failure("InvalidDim", DimNone, 0)
        ELSE LET dim == IF dim1.tag = "int" THEN IntDimTable(x, dim1.d) ELSE dim1
                 n == num_sys(dim1)
             IN  IF InvalidSysRange(sys, n) THEN Failure("InvalidSys", dim, n)
                 ELSE IF InvalidSysLen(sys) THEN Failure("InvalidSys", dim, n)
                 ELSE LET out == PermuteSystems(RhoArg(x), perm(n), dim, RowOnlyArg(row_only))
                      IN  [err |-> out.err, by |-> "permute_systems", called |-> TRUE,
                           dim |-> dim, num_sys |-> n, perm |-> perm(n),
                           val |-> out.val]

NoResult == Failure("pending", DimNone, 0)

(***************************************************************************)
(* is_psd(mat, tol)                                                        *)
(***************************************************************************)
\* orders for which eigvalsh is modelled in closed form
EigOrders == {1, 2}

Matrices ==
    UNION {{[rank |-> 2, shape |-> <<r, c>>, ent |-> e] :
               e \in [Positions(r, c) -> (-MaxEntry)..MaxEntry]} :
           r \in EigOrders, c \in 1..MaxMatCols}

is_square(m) == m.shape[1] = m.shape[2]

\* An eigenvalue is kept exactly, as (p + s * sqrt(q)) / 2 with s = -1 or 1.
\* eigvalsh reads the lower triangle only and returns the eigenvalues in
\* ascending order; it raises for an array that is not square.
eigvalsh(m) ==
    IF m.shape[1] # m.shape[2] THEN "LinAlgError"
    ELSE IF m.shape[1] = 1
    THEN <<[p |-> 2 * m.ent[<<1, 1>>], q |-> 0, s |-> 1]>>
    ELSE LET a == m.ent[<<1, 1>>]
             b == m.ent[<<2, 1>>]
             c == m.ent[<<2, 2>>]
             q == (a - c) * (a - c) + 4 * b * b
         IN  <<[p |-> a + c, q |-> q, s |-> -1], [p |-> a + c, q |-> q, s |-> 1]>>

\* eigenvalue e > -t
GreaterThanNeg(e, t) ==
    LET u == e.p + 2 * t
    IN  IF e.s = 1 THEN u > 0 \/ e.q > u * u
        ELSE u > 0 /\ u * u > e.q

\* np.all(eigvalsh(mat) > -tol)
EigTest(m, t) ==
    LET ev == eigvalsh(m)
    IN  IF ev = "LinAlgError"
        THEN [ret |-> FALSE, raised |-> TRUE, eig |-> TRUE]
        ELSE [ret |-> \A k \in 1..Len(ev) : GreaterThanNeg(ev[k], t),
              raised |-> FALSE, eig |-> TRUE]

\* variant: the eigenvalue test without the squareness guard
is_psd_Unguarded(m, t) == EigTest(m, t)

is_psd(m, t) ==
    IF ~is_square(m) THEN [ret |-> FALSE, raised |-> FALSE, eig |-> FALSE]
    ELSE EigTest(m, t)

PsdPending == [ret |-> FALSE, raised |-> FALSE, eig |-> FALSE]

(***************************************************************************)
(* The state machine.                                                      *)
(***************************************************************************)
InitSwap ==
    /\ pc = "ready"
    /\ rho \in Operands
    /\ args = NoArgs
    /\ res = NoResult
    /\ res2 = NoResult
    /\ mat = NoOperand
    /\ tol = 0
    /\ psd = PsdPending

InitPsd ==
    /\ pc = "psd_ready"
    /\ rho = NoOperand
    /\ args = NoArgs
    /\ res = NoResult
    /\ res2 = NoResult
    /\ mat \in Matrices
    /\ tol \in 0..MaxTol
    /\ psd = PsdPending

Init == InitSwap \/ InitPsd

\* one call swap(rho, sys, dim, row_only)
Swap ==
    /\ pc = "ready"
    /\ \E sys \in SysArgs, dim \in DimArgs(rho_dims(rho)), row_only \in BOOLEAN :
          /\ args' = [sys |-> sys, dim |-> dim, row_only |-> row_only]
          /\ res' = swap(rho, sys, dim, row_only)
    /\ pc' = "swapped"
    /\ UNCHANGED <<rho, res2, mat, tol, psd>>

\* the result of the first call swapped again with the same arguments
SwapAgain ==
    /\ pc = "swapped"
    /\ res.err = "none"
    /\ res2' = swap(res.val, args.sys, args.dim, args.row_only)
    /\ pc' = "twice"
    /\ UNCHANGED <<rho, args, res, mat, tol, psd>>

\* one call is_psd(mat, tol)
IsPsd ==
    /\ pc = "psd_ready"
    /\ psd' = is_psd(mat, tol)
    /\ pc' = "psd_done"
    /\ UNCHANGED <<rho, args, res, res2, mat, tol>>

Next == Swap \/ SwapAgain \/ IsPsd

Spec == Init /\ [][Next]_vars

(***************************************************************************)
(* Vocabulary of the properties.                                           *)
(***************************************************************************)
Swapped == pc \in {"swapped", "twice"}

\* rows and columns of the operand of the first call
Rows == rho_dims(rho)[1]
Cols == rho_dims(rho)[2]

\* the number of subsystems that a dim argument describes
NSub(dim) == IF dim.tag \in {"none", "int"} THEN 2 ELSE Len(dim.r)

IsSquareNumber(n) == \E k \in 1..n : k * k = n

\* the dim argument accounts exactly for the size of the operand
DimsValid(x, dim) ==
    LET xd == rho_dims(x)
    IN  CASE dim.tag = "none" -> IsSquareNumber(xd[1]) /\ IsSquareNumber(xd[2])
          [] dim.tag = "int" -> xd[1] % dim.d = 0 /\ xd[2] % dim.d = 0
          [] dim.tag = "list" ->
                 /\ Len(dim.r) >= 1
                 /\ Prod(dim.r) = xd[2]
                 /\ (x.rank = 2 => Prod(dim.r) = xd[1])
          [] dim.tag = "table" -> Prod(dim.r) = xd[1] /\ Prod(dim.c) = xd[2]

\* the selector in force, after the default
Selector == IF args.sys.none THEN <<1, 2>> ELSE args.sys.v

\* the identity ordering of 1..n with positions a and b exchanged
Exchange(n, a, b) ==
    [k \in 1..n |-> IF k = a THEN b ELSE IF k = b THEN a ELSE k]

\* where a label of Labelled(r, c) sits in the input
RowOf(label) == ((label - 1) \div Cols) + 1
ColOf(label) == ((label - 1) % Cols) + 1

\* out holds every entry of the operand exactly once, in the same shape
Reindexing(x, out) ==
    /\ out.rank = x.rank
    /\ out.shape = x.shape
    /\ DOMAIN out.ent = DOMAIN x.ent
    /\ \A q \in DOMAIN x.ent :
          Cardinality({p \in DOMAIN out.ent : out.ent[p] = x.ent[q]}) = 1

(***************************************************************************)
(* C1.  For valid dims describing n >= 2 subsystems and a selector (a, b)  *)
(* of two distinct entries of 1..n (or the default selector), the          *)
(* permutation handed to the engine is the identity ordering of 1..n with  *)
(* a and b exchanged.                                                      *)
(***************************************************************************)
C1_ExchangePermutation ==
    (/\ Swapped
     /\ res.called
     /\ DimsValid(rho, args.dim)
     /\ NSub(args.dim) >= 2
     /\ Len(Selector) = 2
     /\ \A k \in 1..2 : Selector[k] \in 1..NSub(args.dim)
     /\ Selector[1] # Selector[2])
    => res.perm = Exchange(NSub(args.dim), Selector[1], Selector[2])

(***************************************************************************)
(* C2.  With valid dims and a two-entry selector, an entry smaller than 1  *)
(* or larger than the number of subsystems makes the call fail with the    *)
(* invalid-selector error and return nothing.                              *)
(***************************************************************************)
C2_OutOfRangeSelectorRejected ==
    (/\ Swapped
     /\ DimsValid(rho, args.dim)
     /\ Len(Selector) = 2
     /\ \E k \in 1..2 : Selector[k] < 1 \/ Selector[k] > NSub(args.dim))
    => (res.err = "InvalidSys" /\ res.val = NoOperand)

(***************************************************************************)
(* C3.  With valid dims, a selector that does not have exactly two entries *)
(* makes the call fail with the invalid-selector error, whatever the       *)
(* entries are.                                                            *)
(***************************************************************************)
C3_SelectorLengthRejected ==
    (/\ Swapped
     /\ DimsValid(rho, args.dim)
     /\ Len(Selector) # 2)
    => (res.err = "InvalidSys" /\ ~res.called /\ res.val = NoOperand)

C3_Witness ==
    /\ Swapped
    /\ DimsValid(rho, args.dim)
    /\ Selector = <<1, 2, 1>>
    /\ args.dim.tag = "list"
    /\ res.err = "InvalidSys"

(***************************************************************************)
(* C4.  With dims a single integer d, the call fails with the invalid-     *)
(* dimension error when d does not divide the row count or the column      *)
(* count; otherwise it goes on with row dimensions (d, rows/d), column     *)
(* dimensions (d, cols/d) and two subsystems.                              *)
(***************************************************************************)
C4_IntegerDims ==
    (Swapped /\ args.dim.tag = "int")
    => LET d == args.dim.d
       IN  IF Rows % d # 0 \/ Cols % d # 0
           THEN /\ res.err = "InvalidDim"
                /\ res.by = "swap"
                /\ ~res.called
                /\ res.val = NoOperand
           ELSE /\ res.err # "InvalidDim"
                /\ res.num_sys = 2
                /\ res.dim = DimTable(<<d, Rows \div d>>, <<d, Cols \div d>>)

C4_Witness ==
    /\ Swapped
    /\ rho = Matrix(3, 3)
    /\ args.dim = DimInt(2)
    /\ Selector = <<1, 2>>
    /\ res.err = "InvalidDim"

(***************************************************************************)
(* C5.  As claimed: two calls of swap in a row with the same selector and  *)
(* dims give back the original operand, for every valid dims and selector, *)
(* subsystems of unequal dimension included.  The calls looked at are      *)
(* those in which the permutation handed to the engine is the exchange of  *)
(* the two selected subsystems.                                            *)
(***************************************************************************)
C5_SwapTwiceIsIdentity ==
    (/\ pc = "twice"
     /\ DimsValid(rho, args.dim)
     /\ Len(Selector) = 2
     /\ \A k \in 1..2 : Selector[k] \in 1..NSub(args.dim)
     /\ res.perm = Exchange(NSub(args.dim), Selector[1], Selector[2]))
    => (res2.err = "none" /\ res2.val = rho)

(***************************************************************************)
(* C5, amended.  Two calls of swap in a row with the same arguments give   *)
(* back the original operand whenever the first call succeeds and all      *)
(* subsystems have the same row dimension and the same column dimension.   *)
(***************************************************************************)
AllEqual(s) == \A j, k \in 1..Len(s) : s[j] = s[k]

C5_SwapTwiceEqualDims ==
    (/\ pc = "twice"
     /\ AllEqual(res.dim.r)
     /\ AllEqual(res.dim.c))
    => (res2.err = "none" /\ res2.val = rho)

C5_Witness ==
    /\ pc = "twice"
    /\ Selector = <<1, 2>>
    /\ AllEqual(res.dim.r)
    /\ AllEqual(res.dim.c)
    /\ res.val # rho
    /\ res2.val = rho

(***************************************************************************)
(* C6.  For a matrix operand, a successful call with row_only = True       *)
(* leaves every entry in its column and moves whole rows: the result is    *)
(* the input with its rows rearranged.                                     *)
(***************************************************************************)
C6_RowOnlyKeepsColumns ==
    (/\ Swapped
     /\ rho.rank = 2
     /\ args.row_only
     /\ res.err = "none")
    => /\ DOMAIN res.val.ent = Positions(Rows, Cols)
       /\ \A p \in Positions(Rows, Cols) :
             /\ ColOf(res.val.ent[p]) = p[2]
             /\ RowOf(res.val.ent[p]) = RowOf(res.val.ent[<<p[1], 1>>])
       /\ \A i \in 1..Rows : \E k \in 1..Rows : RowOf(res.val.ent[<<k, 1>>]) = i

C6_Witness ==
    /\ Swapped
    /\ rho.rank = 2
    /\ Rows # Cols
    /\ Cols > 1
    /\ Selector = <<1, 2>>
    /\ args.row_only
    /\ res.err = "none"
    /\ res.val # rho

(***************************************************************************)
(* C7.  A successful call returns an operand of the same rank and shape    *)
(* that holds every entry of the input exactly once.                       *)
(***************************************************************************)
C7_PureReindexing ==
    /\ (Swapped /\ res.err = "none") => Reindexing(rho, res.val)
    /\ (pc = "twice" /\ res2.err = "none") => Reindexing(res.val, res2.val)

C7_Witness ==
    /\ Swapped
    /\ rho.rank = 1
    /\ Selector = <<1, 2>>
    /\ res.err = "none"
    /\ res.val # rho

PositiveDefiniteShifted(m, t) ==
    IF m.shape[1] = 1 THEN m.ent[<<1, 1>>] + t > 0
    ELSE /\ m.ent[<<1, 1>>] + t > 0
         /\ (m.ent[<<1, 1>>] + t) * (m.ent[<<2, 2>>] + t)
               - m.ent[<<2, 1>>] * m.ent[<<2, 1>>] > 0

C9_NonSquareIsFalse ==
    pc = "psd_done"
    => IF mat.shape[1] # mat.shape[2]
       THEN psd = [ret |-> FALSE, raised |-> FALSE, eig |-> FALSE]
       ELSE /\ psd.eig
            /\ ~psd.raised
            /\ psd.ret = PositiveDefiniteShifted(mat, tol)

C9_Witness ==
    /\ pc = "psd_done"
    /\ mat.shape = <<1, 2>>
    /\ psd.ret = FALSE
    /\ ~psd.eig

(***************************************************************************)
(* C10.  For a 1-D operand, dims given as a single integer d >= 2 always   *)
(* ends in the invalid-dimension error, even when d divides the length;    *)
(* d = 1 passes the divisibility test.                                     *)
(***************************************************************************)
C10_VectorIntegerDims ==
    (Swapped /\ rho.rank = 1 /\ args.dim.tag = "int")
    => IF args.dim.d >= 2
       THEN res.err = "InvalidDim" /\ res.by = "swap" /\ res.val = NoOperand
       ELSE res.err # "InvalidDim"

C10_Witness ==
    /\ Swapped
    /\ rho = Vector(4)
    /\ args.dim = DimInt(2)
    /\ args.sys.none
    /\ res.err = "InvalidDim"

====
